---------------------------- MODULE Spec2Model ----------------------------
(***************************************************************************)
(* A model of firmware/tinyg/config.c: the application independent config  *)
(* handling of TinyG (descriptor table dispatch, the nvObj list, the       *)
(* shared string arena, the token resolver, group expansion and the boot   *)
(* time defaults sequencer).                                               *)
(*                                                                         *)
(* Representation                                                          *)
(*  - a C float is a fixed-point number: the integer n stands for n/Q.     *)
(*    F(k) is the conversion (float)k of an integer k.  Storage cells of   *)
(*    integer type (uint8_t, uint32_t) hold plain integers, so every       *)
(*    conversion between a node value and a storage cell is a real         *)
(*    computation.                                                         *)
(*  - a C string is a sequence of one-character strings without its NUL.   *)
(*  - a pointer into nv_list is the slot number 0..NV_LIST_LEN-1; NULL is  *)
(*    -1; a pointer past the pool is a slot number       *)
(*    >= NV_LIST_LEN.                                                      *)
(***************************************************************************)
EXTENDS Integers, Sequences, FiniteSets, TLC

VARIABLES
    cfgArray,   \* the descriptor table (never written after construction)
    target,     \* backing storage: one cell per descriptor
    nvm,        \* nonvolatile records, one per descriptor index
    fw_build,   \* cs.fw_build
    units,      \* canonical machine units mode
    comm_mode,  \* cfg.comm_mode
    nv_list,    \* the nvObj pool
    nvStr,      \* the shared string arena
    query,      \* the request: (group, token) for nv_get_index, (index, value)
                \* for the gatekeepers
    log,        \* what the last operation dispatched, in order
    ret,        \* the last operation: its name, arguments and result
    oob,        \* bytes/nodes the last operation wrote outside its array
    pc          \* position of the boot sequence

vars == <<cfgArray, target, nvm, fw_build, units, comm_mode, nv_list, nvStr,
          query, log, ret, oob, pc>>

-----------------------------------------------------------------------------
(* Bounds of the model *)

\* resolution of the fixed-point stand-in for float: n stands for n/Q
Q == 10
\* number of single-valued descriptors of the tables of the init sequencer
NumSinglesInit == 3
\* number of single-valued descriptors of the tables of the accessor checks
NumSinglesAcc == 1
\* node values offered to a setter: the integers -NegInput..MaxInput
MaxInput == 4
NegInput == 2
\* capacity of the shared string arena (scaled down)
NV_SHARED_STRING_LEN == 4
\* number of body nodes (scaled down)
NV_BODY_LEN == 3
\* longest text offered to nv_copy_string
MaxText == 5
\* number of single-valued descriptors of the tables of the list checks
NumSinglesList == 2
\* number of descriptors of the tables of the resolver checks
NumTokens == 2
\* longest group string offered to nv_get_index
MaxGroupQ == 1
\* number of calls in a run of the add checks (SpecAdd)
MaxCalls == 4
\* number of calls in a run of the list checks (SpecList)
MaxListCalls == 3

-----------------------------------------------------------------------------
(* Program constants *)

NULL == -1
NUL == <<>>
TOKEN_LEN == 5
GROUP_LEN == 3
NO_MATCH == 65535
NV_LIST_LEN == NV_BODY_LEN + 2
MAGICNUM == "MAGICNUM"

STAT_OK == "STAT_OK"
STAT_NOOP == "STAT_NOOP"
STAT_INTERNAL_RANGE_ERROR == "STAT_INTERNAL_RANGE_ERROR"
STAT_INPUT_VALUE_UNSUPPORTED == "STAT_INPUT_VALUE_UNSUPPORTED"
STAT_BUFFER_FULL == "STAT_BUFFER_FULL"
STAT_UNRECOGNIZED_COMMAND == "STAT_UNRECOGNIZED_COMMAND"

TYPE_EMPTY == "TYPE_EMPTY"
TYPE_NULL == "TYPE_NULL"
TYPE_PARENT == "TYPE_PARENT"
TYPE_INTEGER == "TYPE_INTEGER"
TYPE_DATA == "TYPE_DATA"
TYPE_FLOAT == "TYPE_FLOAT"
TYPE_STRING == "TYPE_STRING"

F_INITIALIZE == "F_INITIALIZE"
F_PERSIST == "F_PERSIST"
F_NOSTRIP == "F_NOSTRIP"

MILLIMETERS == "MILLIMETERS"
INCHES == "INCHES"
TEXT_MODE == "TEXT_MODE"
JSON_MODE == "JSON_MODE"

-----------------------------------------------------------------------------
(* Numbers *)

\* (float)k of an integer k
F(k) == k * Q

\* truncation of a float toward zero: the integer part
Trunc(v) == IF v >= 0 THEN v \div Q ELSE -((-v) \div Q)

\* what a build may produce for (uint8_t)v.  The conversion is defined when
\* the truncated value fits 0..255; otherwise it is undefined behaviour and
\* the build either saturates (ARM vcvt) or wraps (integer truncation).
UBCast == {"saturate", "wrap"}

CastUi8(v, ub) ==
    LET t == Trunc(v) IN
    IF t >= 0 /\ t <= 255 THEN t
    ELSE IF ub = "wrap" THEN t % 256
    ELSE IF t < 0 THEN 0 ELSE 255

\* the modulus of uint32_t cells.  The model narrows the cell to 24 bits, the
\* range in which a float holds every integer exactly, so that (float) of a
\* cell stays inside the model checker's integers.
UI32_MOD == 65536 * 256

\* (uint32_t)v, same undefined behaviour below zero
CastUi32(v, ub) ==
    LET t == Trunc(v) IN
    IF t >= 0 THEN t % UI32_MOD
    ELSE IF ub = "wrap" THEN t % UI32_MOD
    ELSE 0

\* the 32 bit pattern of a float and back: a bijection standing for the
\* IEEE-754 encoding (sign in the low bit)
FloatToBits(v) == IF v >= 0 THEN 2 * v ELSE 2 * (-v) - 1
BitsToFloat(b) == IF b % 2 = 0 THEN b \div 2 ELSE -((b + 1) \div 2)

\* v * MM_PER_INCH (25.4), rounded toward zero to the resolution
MulMMPerInch(v) == IF v >= 0 THEN (v * 254) \div 10 ELSE -(((-v) * 254) \div 10)

\* fp_FALSE(a): a < EPSILON, EPSILON below the resolution
fp_FALSE(v) == v < 1

-----------------------------------------------------------------------------
(* The descriptor table and its index ranges (config_app.c) *)

\* cfgArray[i] of the C table is cfgArray[i+1] of the sequence
Desc(i) == cfgArray[i + 1]

nv_index_max == Len(cfgArray)

\* the single-valued descriptors come first, the groups after them
NV_INDEX_END_SINGLES ==
    Cardinality({k \in 1..Len(cfgArray) : cfgArray[k].get # "get_grp"})

nv_index_is_single(i) == i < NV_INDEX_END_SINGLES

nv_index_lt_groups(i) == i < NV_INDEX_END_SINGLES

\* a descriptor of the table
Item(g, t, fl, get, set, def, prec) ==
    [group |-> g, token |-> t, flags |-> fl, get |-> get, set |-> set,
     def_value |-> def, precision |-> prec]

\* the group entries that close the tables of the model
GroupItem(t) == Item(NUL, t, {}, "get_grp", "set_grp", 0, 0)

-----------------------------------------------------------------------------
(* Nodes and the machine state the operations work on *)

\* a cleared nvObj, as in zeroed RAM
ZeroNode ==
    [valuetype |-> TYPE_EMPTY, index |-> 0, value |-> 0, precision |-> 0,
     token |-> NUL, group |-> NUL, stringp |-> NULL, depth |-> 0,
     pv |-> NULL, nx |-> NULL]

\* the part of the state an operation reads and writes
Machine ==
    [list |-> nv_list, target |-> target, nvm |-> nvm, units |-> units,
     str |-> nvStr, log |-> <<>>, oob |-> 0]

Ev(e, i, v) == [ev |-> e, i |-> i, v |-> v]

Logged(m, e, i, v) == [m EXCEPT !.log = Append(@, Ev(e, i, v))]

Res(st, m) == [st |-> st, m |-> m]

-----------------------------------------------------------------------------
(* Generic gets and sets: m is the machine, n the slot of the node *)

get_nul(m, n) ==
    Res(STAT_NOOP, [m EXCEPT !.list[n].valuetype = TYPE_NULL])

get_ui8(m, n) ==
    Res(STAT_OK, [m EXCEPT !.list[n].value = F(m.target[m.list[n].index]),
                           !.list[n].valuetype = TYPE_INTEGER])

get_int(m, n) ==
    Res(STAT_OK, [m EXCEPT !.list[n].value = F(m.target[m.list[n].index]),
                           !.list[n].valuetype = TYPE_INTEGER])

get_data(m, n) ==
    Res(STAT_OK, [m EXCEPT !.list[n].value = BitsToFloat(m.target[m.list[n].index]),
                           !.list[n].valuetype = TYPE_DATA])

get_flt(m, n) ==
    Res(STAT_OK, [m EXCEPT !.list[n].value = m.target[m.list[n].index],
                           !.list[n].precision = Desc(m.list[n].index).precision,
                           !.list[n].valuetype = TYPE_FLOAT])

set_nul(m, n) == Res(STAT_NOOP, m)

set_ui8(m, n, ub) ==
    Res(STAT_OK, [m EXCEPT !.target[m.list[n].index] = CastUi8(m.list[n].value, ub),
                           !.list[n].valuetype = TYPE_INTEGER])

set_01(m, n, ub) ==
    IF m.list[n].value > F(1) THEN Res(STAT_INPUT_VALUE_UNSUPPORTED, m)
    ELSE set_ui8(m, n, ub)

set_012(m, n, ub) ==
    IF m.list[n].value > F(2) THEN Res(STAT_INPUT_VALUE_UNSUPPORTED, m)
    ELSE set_ui8(m, n, ub)

set_0123(m, n, ub) ==
    IF m.list[n].value > F(3) THEN Res(STAT_INPUT_VALUE_UNSUPPORTED, m)
    ELSE set_ui8(m, n, ub)

set_int(m, n, ub) ==
    Res(STAT_OK, [m EXCEPT !.target[m.list[n].index] = CastUi32(m.list[n].value, ub),
                           !.list[n].valuetype = TYPE_INTEGER])

set_data(m, n) ==
    Res(STAT_OK, [m EXCEPT !.target[m.list[n].index] = FloatToBits(m.list[n].value),
                           !.list[n].valuetype = TYPE_DATA])

set_flt(m, n) ==
    Res(STAT_OK, [m EXCEPT !.target[m.list[n].index] = m.list[n].value,
                           !.list[n].precision = Desc(m.list[n].index).precision,
                           !.list[n].valuetype = TYPE_FLOAT])

get_flu(m, n) == get_flt(m, n)

set_flu(m, n) ==
    LET v == IF m.units = INCHES THEN MulMMPerInch(m.list[n].value)
             ELSE m.list[n].value
    IN  Res(STAT_OK, [m EXCEPT !.list[n].value = v,
                               !.target[m.list[n].index] = v,
                               !.list[n].precision = Desc(m.list[n].index).precision,
                               !.list[n].valuetype = TYPE_FLOAT])

-----------------------------------------------------------------------------
(* Nonvolatile storage service (persistence.c) *)

\* read_persistent_value(nv): the record at nv->index into nv->value
read_persistent_value(m, n) ==
    [m EXCEPT !.list[n].value = m.nvm[m.list[n].index]]

\* write_persistent_value(nv): nv->value into the record at nv->index
write_persistent_value(m, n) ==
    Logged([m EXCEPT !.nvm[m.list[n].index] = m.list[n].value],
           "nvm_write", m.list[n].index, m.list[n].value)

-----------------------------------------------------------------------------
(* nvObj low-level operations *)

InPool(n) == n \in 0..(NV_LIST_LEN - 1)

\* the first body node
nv_body == 1

\* a depth rule that ignores whether the predecessor is a parent
ResetDepthFlat(list, n) ==
    IF list[n].pv = NULL THEN 0 ELSE list[list[n].pv].depth

\* the depth nv_reset_nvObj gives a node, from its predecessor
ResetDepth(list, n) ==
    IF list[n].pv = NULL THEN 0
    ELSE IF list[list[n].pv].valuetype = TYPE_PARENT
         THEN list[list[n].pv].depth + 1
         ELSE list[list[n].pv].depth

nv_reset_nvObj(list, n) ==
    [list EXCEPT ![n] = [@ EXCEPT !.valuetype = TYPE_EMPTY, !.index = 0,
                                  !.value = 0, !.precision = 0,
                                  !.token = NUL, !.group = NUL,
                                  !.stringp = NULL,
                                  !.depth = ResetDepth(list, n)]]

\* the links as the loop leaves them, the ends not corrected
ResetSlotBogusEnds(old, k) ==
    [old EXCEPT !.pv = k - 1,
                !.nx = k + 1,
                !.index = 0,
                !.depth = IF k = 0 THEN 0 ELSE 1,
                !.precision = 0,
                !.valuetype = IF k = 0 THEN TYPE_PARENT ELSE TYPE_EMPTY,
                !.token = IF k = 0 THEN <<"r">> ELSE NUL]

\* a reset of the slot that leaves the kind of a body node as it was
ResetSlotKeepingKind(old, k) ==
    [old EXCEPT !.pv = IF k = 0 THEN NULL ELSE k - 1,
                !.nx = IF k = NV_LIST_LEN - 1 THEN NULL ELSE k + 1,
                !.index = 0,
                !.depth = IF k = 0 THEN 0 ELSE 1,
                !.precision = 0,
                !.valuetype = IF k = 0 THEN TYPE_PARENT ELSE @,
                !.token = IF k = 0 THEN <<"r">> ELSE NUL]

\* the pool as nv_reset_nvObj_list links it: the fields it does not write
\* (value, group, stringp) keep what they held
ResetSlot(old, k) ==
    [old EXCEPT !.pv = IF k = 0 THEN NULL ELSE k - 1,
                !.nx = IF k = NV_LIST_LEN - 1 THEN NULL ELSE k + 1,
                !.index = 0,
                !.depth = IF k = 0 THEN 0 ELSE 1,
                !.precision = 0,
                !.valuetype = IF k = 0 THEN TYPE_PARENT ELSE TYPE_EMPTY,
                !.token = IF k = 0 THEN <<"r">> ELSE NUL]

ResetPool(list) == [k \in 0..(NV_LIST_LEN - 1) |-> ResetSlot(list[k], k)]

\* a reset that computes the depths from the predecessors, as nv_reset_nvObj
nv_reset_nvObj_list_relinking(m) ==
    [m EXCEPT !.str.wp = 0,
              !.list = [k \in 0..(NV_LIST_LEN - 1) |->
                          [ResetSlot(m.list[k], k) EXCEPT
                              !.depth = IF k = 0 THEN 0 ELSE ResetDepth(m.list, k)]]]

nv_reset_nvObj_list(m) ==
    [m EXCEPT !.str.wp = 0, !.list = ResetPool(m.list)]

\* strcpy(token, &token[strlen(group)])
StripGroup(token, group) == SubSeq(token, Len(group) + 1, Len(token))

RECURSIVE get_grp(_, _)

\* the getters, by the name the descriptor binds
CallGet(f, m, n) ==
    CASE f = "get_grp"  -> get_grp(m, n)
      [] f = "get_ui8"  -> get_ui8(m, n)
      [] f = "get_int"  -> get_int(m, n)
      [] f = "get_data" -> get_data(m, n)
      [] f = "get_flt"  -> get_flt(m, n)
      [] f = "get_flu"  -> get_flu(m, n)
      [] OTHER          -> get_nul(m, n)

\* the leaf setters, by the name the descriptor binds
CallSet(f, m, n, ub) ==
    CASE f = "set_ui8"  -> set_ui8(m, n, ub)
      [] f = "set_01"   -> set_01(m, n, ub)
      [] f = "set_012"  -> set_012(m, n, ub)
      [] f = "set_0123" -> set_0123(m, n, ub)
      [] f = "set_int"  -> set_int(m, n, ub)
      [] f = "set_data" -> set_data(m, n)
      [] f = "set_flt"  -> set_flt(m, n)
      [] f = "set_flu"  -> set_flu(m, n)
      [] OTHER          -> set_nul(m, n)

\* nv_get_nvObj(nv) for a node of the pool whose index is already set
nv_get_nvObj(m, n) ==
    IF m.list[n].index >= nv_index_max THEN m
    ELSE
      LET i  == m.list[n].index
          d  == Desc(i)
          l1 == [nv_reset_nvObj(m.list, n) EXCEPT ![n].index = i]
          l2 == [l1 EXCEPT ![n].token = d.token, ![n].group = d.group]
          l3 == IF d.group = NUL THEN l2
                ELSE IF F_NOSTRIP \in d.flags
                     THEN [l2 EXCEPT ![n].group = NUL]
                     ELSE [l2 EXCEPT ![n].token = StripGroup(d.token, d.group)]
          m1 == Logged([m EXCEPT !.list = l3], "get", i, 0)
      IN  CallGet(d.get, m1, n).m

\* the loop of get_grp: i the next table index, n the slot of the last child
RECURSIVE get_grp_loop(_, _, _, _)
get_grp_loop(m, n, i, parent_group) ==
    IF ~nv_index_is_single(i) THEN m
    ELSE IF Desc(i).group # parent_group
         THEN get_grp_loop(m, n, i + 1, parent_group)
    ELSE IF InPool(n + 1)
         THEN get_grp_loop(nv_get_nvObj([m EXCEPT !.list[n + 1].index = i], n + 1),
                           n + 1, i + 1, parent_group)
         \* (++nv) is past the end of nv_list: the child is written into
         \* whatever follows the array
         ELSE get_grp_loop([m EXCEPT !.oob = @ + 1], n + 1, i + 1, parent_group)

get_grp(m, n) ==
    Res(STAT_OK, get_grp_loop([m EXCEPT !.list[n].valuetype = TYPE_PARENT],
                              n, 0, m.list[n].token))

-----------------------------------------------------------------------------
(* The gatekeepers and the group setter *)

\* number of list nodes set_grp visits at most (config.h)
NV_MAX_OBJECTS == NV_BODY_LEN - 1

nv_get(m, n) ==
    IF m.list[n].index >= nv_index_max THEN Res(STAT_INTERNAL_RANGE_ERROR, m)
    ELSE LET f  == Desc(m.list[n].index).get
             m1 == Logged(m, "get", m.list[n].index, 0)
         IN  IF f = "get_grp" THEN get_grp(m1, n) ELSE CallGet(f, m1, n)

\* nv_print without the range check
nv_print_unchecked(m, n) ==
    Logged(m, "print", m.list[n].index, m.list[n].value)

nv_print(m, n) ==
    IF m.list[n].index >= nv_index_max THEN m
    ELSE Logged(m, "print", m.list[n].index, m.list[n].value)

\* nv_persist without the test of the PERSIST flag
nv_persist_unflagged(m, n) ==
    LET m1 == Logged(m, "persist", m.list[n].index, m.list[n].value) IN
    IF ~nv_index_lt_groups(m.list[n].index) THEN m1
    ELSE write_persistent_value(m1, n)

nv_persist(m, n) ==
    LET m1 == Logged(m, "persist", m.list[n].index, m.list[n].value) IN
    IF ~nv_index_lt_groups(m.list[n].index) THEN m1
    ELSE IF F_PERSIST \in Desc(m.list[n].index).flags
         THEN write_persistent_value(m1, n)
         ELSE m1

RECURSIVE nv_set(_, _, _)
RECURSIVE set_grp_loop(_, _, _, _)

\* the loop of set_grp without the limit of NV_MAX_OBJECTS nodes
RECURSIVE set_grp_loop_unlimited(_, _, _, _)
set_grp_loop_unlimited(m, n, i, ub) ==
    LET nx == m.list[n].nx IN
    IF nx = NULL THEN m
    ELSE IF m.list[nx].valuetype = TYPE_EMPTY THEN m
    ELSE IF m.list[nx].valuetype = TYPE_NULL
         THEN set_grp_loop_unlimited(nv_get(m, nx).m, nx, i + 1, ub)
         ELSE set_grp_loop_unlimited(nv_persist(nv_set(m, nx, ub).m, nx), nx, i + 1, ub)

\* the loop of set_grp: n the node visited last, i the loop counter
set_grp_loop(m, n, i, ub) ==
    IF i >= NV_MAX_OBJECTS THEN m
    ELSE LET nx == m.list[n].nx IN
         IF nx = NULL THEN m
         ELSE IF m.list[nx].valuetype = TYPE_EMPTY THEN m
         ELSE IF m.list[nx].valuetype = TYPE_NULL
              THEN set_grp_loop(nv_get(m, nx).m, nx, i + 1, ub)
              ELSE set_grp_loop(nv_persist(nv_set(m, nx, ub).m, nx), nx, i + 1, ub)

\* set_grp without the test of the communication mode
set_grp_any_mode(m, n, ub) == Res(STAT_OK, set_grp_loop(m, n, 0, ub))

set_grp(m, n, ub) ==
    IF comm_mode = TEXT_MODE THEN Res(STAT_UNRECOGNIZED_COMMAND, m)
    ELSE Res(STAT_OK, set_grp_loop(m, n, 0, ub))

nv_set(m, n, ub) ==
    IF m.list[n].index >= nv_index_max THEN Res(STAT_INTERNAL_RANGE_ERROR, m)
    ELSE LET f  == Desc(m.list[n].index).set
             m1 == Logged(m, "set", m.list[n].index, m.list[n].value)
         IN  IF f = "set_grp" THEN set_grp(m1, n, ub) ELSE CallSet(f, m1, n, ub)

-----------------------------------------------------------------------------
(* config_init and set_defaults *)

\* strncpy(dst, src, TOKEN_LEN)
StrnCpyToken(src) == SubSeq(src, 1, IF Len(src) < TOKEN_LEN THEN Len(src) ELSE TOKEN_LEN)

\* the loop of set_defaults without the call of nv_persist
RECURSIVE set_defaults_loop_unpersisted(_, _, _)
set_defaults_loop_unpersisted(m, n, ub) ==
    LET i == m.list[n].index IN
    IF ~nv_index_is_single(i) THEN m
    ELSE IF F_INITIALIZE \in Desc(i).flags
         THEN LET m1 == [m EXCEPT !.list[n].value = Desc(i).def_value,
                                  !.list[n].token = StrnCpyToken(Desc(i).token)]
                  m2 == nv_set(m1, n, ub).m
              IN  set_defaults_loop_unpersisted([m2 EXCEPT !.list[n].index = @ + 1], n, ub)
         ELSE set_defaults_loop_unpersisted([m EXCEPT !.list[n].index = @ + 1], n, ub)

\* the loop of set_defaults; the loop variable is the node's own index
RECURSIVE set_defaults_loop(_, _, _)
set_defaults_loop(m, n, ub) ==
    LET i == m.list[n].index IN
    IF ~nv_index_is_single(i) THEN m
    ELSE IF F_INITIALIZE \in Desc(i).flags
         THEN LET m1 == [m EXCEPT !.list[n].value = Desc(i).def_value,
                                  !.list[n].token = StrnCpyToken(Desc(i).token)]
                  m2 == nv_persist(nv_set(m1, n, ub).m, n)
              IN  set_defaults_loop([m2 EXCEPT !.list[n].index = @ + 1], n, ub)
         ELSE set_defaults_loop([m EXCEPT !.list[n].index = @ + 1], n, ub)

\* set_defaults with the initializing message sent before the loop
set_defaults_message_first(m, n, ub) ==
    IF fp_FALSE(m.list[n].value)
    THEN Res(STAT_OK, Logged(m, "help_defa", 0, 0))
    ELSE LET m1 == [m EXCEPT !.units = MILLIMETERS, !.list[n].index = 0]
             m2 == set_defaults_loop(Logged(m1, "msg_initializing", 0, 0), n, ub)
         IN  Res(STAT_OK, Logged(m2, "sr_init", 0, 0))

set_defaults(m, n, ub) ==
    IF fp_FALSE(m.list[n].value)
    THEN Res(STAT_OK, Logged(m, "help_defa", 0, 0))
    ELSE LET m1 == [m EXCEPT !.units = MILLIMETERS, !.list[n].index = 0]
             m2 == set_defaults_loop(m1, n, ub)
             m3 == Logged(m2, "msg_initializing", 0, 0)
         IN  Res(STAT_OK, Logged(m3, "sr_init", 0, 0))

\* the loop of case (2) with the record read once, before the loop
RECURSIVE config_load_loop_stale(_, _, _)
config_load_loop_stale(m, n, ub) ==
    LET i == m.list[n].index IN
    IF ~nv_index_is_single(i) THEN m
    ELSE IF F_INITIALIZE \in Desc(i).flags
         THEN LET m1 == [m EXCEPT !.list[n].token = StrnCpyToken(Desc(i).token)]
                  m2 == nv_set(m1, n, ub).m
              IN  config_load_loop_stale([m2 EXCEPT !.list[n].index = @ + 1], n, ub)
         ELSE config_load_loop_stale([m EXCEPT !.list[n].index = @ + 1], n, ub)

\* the loop of case (2) of config_init
RECURSIVE config_load_loop(_, _, _)
config_load_loop(m, n, ub) ==
    LET i == m.list[n].index IN
    IF ~nv_index_is_single(i) THEN m
    ELSE IF F_INITIALIZE \in Desc(i).flags
         THEN LET m1 == [m EXCEPT !.list[n].token = StrnCpyToken(Desc(i).token)]
                  m2 == nv_set(read_persistent_value(m1, n), n, ub).m
              IN  config_load_loop([m2 EXCEPT !.list[n].index = @ + 1], n, ub)
         ELSE config_load_loop([m EXCEPT !.list[n].index = @ + 1], n, ub)

config_init(m, ub) ==
    LET n  == nv_body
        m0 == nv_reset_nvObj_list(m)
        m1 == [m0 EXCEPT !.str.magic_end = MAGICNUM, !.units = MILLIMETERS,
                         !.list[n].index = 0]
        m2 == read_persistent_value(m1, n)
    IN  IF m2.list[n].value # fw_build
        THEN set_defaults([m2 EXCEPT !.list[n].value = F(1)], n, ub).m
        ELSE LET m3 == Logged(m2, "msg_loading", 0, 0)
                 m4 == config_load_loop([m3 EXCEPT !.list[n].index = 0], n, ub)
             IN  Logged(m4, "sr_init", 0, 0)

-----------------------------------------------------------------------------
(* State common to the specifications *)

NULc == ""

\* RAM after a hard reset: all zeroes
ZeroList == [k \in 0..(NV_LIST_LEN - 1) |-> ZeroNode]

ZeroStr ==
    [wp |-> 0, string |-> [k \in 0..(NV_SHARED_STRING_LEN - 1) |-> NULc],
     magic_end |-> "ZERO"]

ZeroCells == [i \in 0..(Len(cfgArray) - 1) |-> 0]

Call(op, arg, st) == [op |-> op, arg |-> arg, st |-> st]

NoCall == Call("none", <<>>, STAT_OK)

\* the machine's variables take the values of machine m
Commit(m) ==
    /\ nv_list' = m.list
    /\ target' = m.target
    /\ nvm' = m.nvm
    /\ units' = m.units
    /\ nvStr' = m.str
    /\ log' = m.log
    /\ oob' = m.oob

-----------------------------------------------------------------------------
(* Specification SpecInit: power-on resets running config_init over a     *)
(* family of descriptor tables and nonvolatile contents                    *)

FW_BUILD == F(3)

StoringSetters ==
    {"set_ui8", "set_01", "set_012", "set_0123", "set_int", "set_data",
     "set_flt", "set_flu"}

GetterOf(set) ==
    CASE set \in {"set_ui8", "set_01", "set_012", "set_0123"} -> "get_ui8"
      [] set = "set_int"  -> "get_int"
      [] set = "set_data" -> "get_data"
      [] set = "set_flt"  -> "get_flt"
      [] set = "set_flu"  -> "get_flu"
      [] OTHER            -> "get_nul"

\* the bindings of the init tables: a setter and a default, among them range
\* setters with a default inside and outside their legal set
InitBindings ==
    {<<"set_ui8", F(3)>>, <<"set_012", F(1)>>, <<"set_012", F(3)>>,
     <<"set_data", F(3)>>, <<"set_flu", F(3)>>, <<"set_nul", F(1)>>}

\* descriptors of the init tables: every flag combination; a descriptor that
\* is not INITIALIZE is never dispatched by config_init, so one binding
\* stands for all of them
InitItems ==
    { Item(NUL, <<"a">>, fl, GetterOf(b[1]), b[1], b[2], 0) :
        fl \in {{F_INITIALIZE}, {F_INITIALIZE, F_PERSIST}}, b \in InitBindings }
    \cup { Item(NUL, <<"a">>, fl, "get_ui8", "set_ui8", F(1), 0) :
        fl \in {{}, {F_PERSIST}} }

RECURSIVE SeqsOf(_, _)
SeqsOf(S, k) ==
    IF k = 0 THEN {<<>>}
    ELSE {Append(q, x) : q \in SeqsOf(S, k - 1), x \in S}

TablesInit == {t \o <<GroupItem(<<"g">>)>> : t \in SeqsOf(InitItems, NumSinglesInit)}

InitBoot ==
    /\ cfgArray \in TablesInit
    /\ target = ZeroCells
    /\ nvm \in {[i \in 0..(Len(cfgArray) - 1) |-> IF i = 0 THEN v ELSE F(i + 4)] :
                  v \in {FW_BUILD, F(0)}}
    /\ fw_build = FW_BUILD
    /\ units = INCHES
    /\ comm_mode = TEXT_MODE
    /\ nv_list = ZeroList
    /\ nvStr = ZeroStr
    /\ query = <<NUL, NUL>>
    /\ log = <<>>
    /\ ret = NoCall
    /\ oob = 0
    /\ pc = "reset"

\* config_init(), called once on hard reset
ConfigInit ==
    /\ pc = "reset"
    /\ \E ub \in UBCast :
         /\ Commit(config_init(Machine, ub))
         /\ ret' = Call("config_init",
                        IF nvm[0] # fw_build THEN "DEFAULTS" ELSE "LOADED", STAT_OK)
    /\ pc' = "run"
    /\ UNCHANGED <<cfgArray, fw_build, comm_mode, query>>

\* a hard reset: RAM is zeroed, nonvolatile storage keeps its records; the
\* call record keeps the path the boot before took and the backing storage
\* it left
HardReset ==
    /\ pc = "run"
    /\ target' = ZeroCells
    /\ units' = INCHES
    /\ nv_list' = ZeroList
    /\ nvStr' = ZeroStr
    /\ log' = <<>>
    /\ ret' = Call("hard_reset", <<ret.arg, target>>, STAT_OK)
    /\ oob' = 0
    /\ pc' = "reset"
    /\ UNCHANGED <<cfgArray, nvm, fw_build, comm_mode, query>>

NextBoot == ConfigInit \/ HardReset

SpecInit == InitBoot /\ [][NextBoot]_vars

-----------------------------------------------------------------------------
(* Claims about config_init and set_defaults (SpecInit) *)

Singles == 0..(NV_INDEX_END_SINGLES - 1)

\* the content of descriptor i's storage cell, read as its type
CellAsFloat(i) ==
    CASE Desc(i).get \in {"get_ui8", "get_int"} -> F(target[i])
      [] Desc(i).get = "get_data"                -> BitsToFloat(target[i])
      [] OTHER                                   -> target[i]

\* the setter bound to descriptor i stores the descriptor's default
AcceptsDefault(i) ==
    LET d == Desc(i) IN
    \/ d.set \in {"set_ui8", "set_int", "set_data", "set_flt", "set_flu"}
    \/ d.set = "set_01" /\ d.def_value >= 0 /\ d.def_value <= F(1)
    \/ d.set = "set_012" /\ d.def_value >= 0 /\ d.def_value <= F(2)
    \/ d.set = "set_0123" /\ d.def_value >= 0 /\ d.def_value <= F(3)

DefaultsDone == ret.op = "config_init" /\ ret.arg = "DEFAULTS"
LoadedDone == ret.op = "config_init" /\ ret.arg = "LOADED"

RECURSIVE LoadsFrom(_)
LoadsFrom(i) ==
    IF i \notin Singles THEN <<>>
    ELSE IF F_INITIALIZE \in Desc(i).flags
         THEN <<Ev("set", i, nvm[i])>> \o LoadsFrom(i + 1)
         ELSE LoadsFrom(i + 1)

IsAccess(e) == e.ev \in {"set", "get", "print", "persist", "nvm_write"}

\* C2: on the LOADED path no nonvolatile write happens; set is dispatched
\* exactly once per INITIALIZE descriptor, in ascending table order, with the
\* value of the descriptor's own record; no other descriptor is dispatched
\* and the storage of the descriptors not flagged INITIALIZE is unchanged.
C2_LoadedFromRecords ==
    [][LoadedDone' =>
        /\ nvm' = nvm
        /\ SelectSeq(log', IsAccess) = LoadsFrom(0)
        /\ \A i \in Singles :
             F_INITIALIZE \notin Desc(i).flags => target'[i] = target[i]]_vars

C2_Witness ==
    /\ LoadedDone
    /\ Len(SelectSeq(log, IsAccess)) >= 2
    /\ \E i \in Singles : F_INITIALIZE \notin Desc(i).flags
    /\ \E i \in Singles : F_INITIALIZE \in Desc(i).flags /\ CellAsFloat(i) = nvm[i]
                            /\ nvm[i] # 0

-----------------------------------------------------------------------------
(* nv_get_index *)

\* byte k of the C string s: its characters, then NUL
ChAt(s, k) == IF k < Len(s) THEN s[k + 1] ELSE NULc

Take(s, k) == SubSeq(s, 1, IF Len(s) < k THEN Len(s) ELSE k)

\* the comparison chain of one loop iteration, from byte k on: TRUE when the
\* iteration returns i, FALSE when it continues
RECURSIVE MatchFrom(_, _, _)
MatchFrom(tok, str, k) ==
    IF k = TOKEN_LEN THEN TRUE
    ELSE LET c == ChAt(tok, k) IN
         IF k >= 1 /\ c = NULc /\ ChAt(str, k) = NULc THEN TRUE
         ELSE IF c # ChAt(str, k) THEN FALSE
         ELSE MatchFrom(tok, str, k + 1)

\* a comparison chain that stops at the end of the table token without
\* looking at the byte of str there
TokenMatchPrefix(tok, str) ==
    \A k \in 0..(Len(tok) - 1) : ChAt(tok, k) = ChAt(str, k)

TokenMatch(tok, str) == MatchFrom(tok, str, 0)

\* str after strncpy(str, group, GROUP_LEN+1); strncat(str, token, TOKEN_LEN+1)
QueryStr(group, token) == Take(group, GROUP_LEN + 1) \o Take(token, TOKEN_LEN + 1)

nv_get_index(group, token) ==
    LET str  == QueryStr(group, token)
        hits == {i \in 0..(nv_index_max - 1) : TokenMatch(Desc(i).token, str)}
    IN  IF hits = {} THEN NO_MATCH
        ELSE CHOOSE i \in hits : \A j \in hits : i <= j

-----------------------------------------------------------------------------
(* Specification SpecIndex: nv_get_index over a family of tables and every *)
(* query over a two letter alphabet                                        *)

RECURSIVE StringsUpTo(_, _)
StringsUpTo(A, k) ==
    IF k = 0 THEN {<<>>}
    ELSE StringsUpTo(A, k - 1) \cup
         {Append(q, x) : q \in {r \in StringsUpTo(A, k - 1) : Len(r) = k - 1}, x \in A}

Alphabet == {"a", "b"}

\* table tokens: every length up to TOKEN_LEN, each a prefix of the next, and
\* a second token of full length
TokenChoices ==
    {<<"a">>, <<"a", "b">>, <<"a", "b", "a">>, <<"a", "b", "a", "b">>,
     <<"a", "b", "a", "b", "a">>, <<"b", "b", "a", "b", "a">>}

TablesIndex ==
    SeqsOf({Item(NUL, t, {}, "get_ui8", "set_ui8", 0, 0) : t \in TokenChoices},
           NumTokens)

InitRest ==
    /\ target = ZeroCells
    /\ nvm = ZeroCells
    /\ fw_build = FW_BUILD
    /\ nv_list = ZeroList
    /\ nvStr = ZeroStr
    /\ log = <<>>
    /\ ret = NoCall
    /\ oob = 0
    /\ pc = "run"

InitIndex ==
    /\ cfgArray \in TablesIndex
    /\ units = MILLIMETERS
    /\ comm_mode = TEXT_MODE
    /\ query \in StringsUpTo(Alphabet, MaxGroupQ) \X StringsUpTo(Alphabet, TOKEN_LEN)
    /\ InitRest

\* index = nv_get_index(group, token), for the query of the initial state
GetIndex ==
    /\ ret.op = "none"
    /\ ret' = Call("nv_get_index", query, nv_get_index(query[1], query[2]))
    /\ UNCHANGED <<cfgArray, target, nvm, fw_build, units, comm_mode, nv_list,
                   nvStr, query, log, oob, pc>>

NextIndex == GetIndex

SpecIndex == InitIndex /\ [][NextIndex]_vars

\* the query as one string
Asked == query[1] \o query[2]

IndexDone == ret.op = "nv_get_index"

\* C3 as stated: nv_get_index returns i only if descriptor i's token equals
\* group+token, returns a matching index whenever the query equals a table
\* token, and NO_MATCH whenever it equals none, also for a query longer than
\* five characters that starts with a five character table token.
C3_ExactMatch ==
    IndexDone =>
        /\ ret.st # NO_MATCH => ret.st < nv_index_max /\ Desc(ret.st).token = Asked
        /\ (\E i \in 0..(nv_index_max - 1) : Desc(i).token = Asked) => ret.st # NO_MATCH
        /\ (\A i \in 0..(nv_index_max - 1) : Desc(i).token # Asked) => ret.st = NO_MATCH

\* descriptor i answers the query: its token is the query, or it has
\* TOKEN_LEN characters and the query goes on after them
Answers(i) ==
    \/ Desc(i).token = Asked
    \/ /\ Len(Desc(i).token) = TOKEN_LEN
       /\ Len(Asked) > TOKEN_LEN
       /\ Take(Asked, TOKEN_LEN) = Desc(i).token

\* C3 as amended: nv_get_index returns the first index whose token equals the
\* query, or has five characters that are the first five of a longer query;
\* it returns NO_MATCH when there is no such index.  A query of at most five
\* characters is resolved by equality.
C3_FirstFiveMatch ==
    IndexDone =>
        /\ ret.st # NO_MATCH =>
             /\ ret.st < nv_index_max /\ Answers(ret.st)
             /\ \A j \in 0..(ret.st - 1) : ~Answers(j)
        /\ ret.st = NO_MATCH => \A i \in 0..(nv_index_max - 1) : ~Answers(i)
        /\ Len(Asked) <= TOKEN_LEN /\ ret.st # NO_MATCH => Desc(ret.st).token = Asked

C3_Witness ==
    /\ IndexDone
    /\ ret.st # NO_MATCH
    /\ Len(Asked) > TOKEN_LEN
    /\ Desc(ret.st).token # Asked

-----------------------------------------------------------------------------
(* Specification SpecAcc: one request through the gatekeepers.  The initial *)
(* state draws the table, the units mode, the content of the storage cells *)
(* and the node the front end has populated (index and value); the actions  *)
(* call nv_set, nv_get and nv_print on that node.                          *)

AccBindings ==
    {"set_ui8", "set_01", "set_012", "set_0123", "set_int", "set_data",
     "set_flt", "set_flu", "set_nul"}

AccItems ==
    {Item(<<"g">>, <<"g", "a">>, {F_PERSIST}, GetterOf(set), set, 0, 2) :
        set \in AccBindings}

TablesAcc == {t \o <<GroupItem(<<"g">>)>> : t \in SeqsOf(AccItems, NumSinglesAcc)}

\* the indices a node may carry: valid ones, the first invalid one, NO_MATCH
NodeIndices == 0..Len(cfgArray) \cup {NO_MATCH}

InputValues == {F(k) : k \in (-NegInput)..MaxInput}

\* the list after nv_reset_nvObj_list, with the first body node populated
RequestList(i, v) ==
    [ResetPool(ZeroList) EXCEPT
        ![nv_body].index = i, ![nv_body].value = v,
        ![nv_body].valuetype = TYPE_FLOAT,
        ![nv_body].token = IF i < Len(cfgArray) THEN Desc(i).token ELSE <<"z">>]

InitAcc ==
    /\ cfgArray \in TablesAcc
    /\ units \in {MILLIMETERS, INCHES}
    /\ comm_mode \in {TEXT_MODE, JSON_MODE}
    /\ target \in {[i \in 0..(Len(cfgArray) - 1) |->
                        IF i < Len(cfgArray) - 1 THEN c ELSE 0] : c \in {0, 2}}
    /\ nvm = ZeroCells
    /\ fw_build = FW_BUILD
    /\ query \in NodeIndices \X InputValues
    /\ nvStr = [ZeroStr EXCEPT !.magic_end = MAGICNUM]
    /\ nv_list = RequestList(query[1], query[2])
    /\ log = <<>>
    /\ ret = NoCall
    /\ oob = 0
    /\ pc = "ready"

\* status = nv_set(nv_body)
NvSet ==
    /\ pc = "ready"
    /\ \E ub \in UBCast :
         LET r == nv_set(Machine, nv_body, ub) IN
         /\ Commit(r.m)
         /\ ret' = Call("nv_set", query, r.st)
    /\ pc' = "set"
    /\ UNCHANGED <<cfgArray, fw_build, comm_mode, query>>

\* status = nv_get(nv_body), on a fresh request or after nv_set
NvGet ==
    /\ pc \in {"ready", "set"}
    /\ LET r == nv_get(Machine, nv_body) IN
         /\ Commit(r.m)
         /\ ret' = Call("nv_get", query, r.st)
    /\ pc' = IF pc = "set" THEN "set_got" ELSE "got"
    /\ UNCHANGED <<cfgArray, fw_build, comm_mode, query>>

\* nv_print(nv_body)
NvPrint ==
    /\ pc = "ready"
    /\ Commit(nv_print(Machine, nv_body))
    /\ ret' = Call("nv_print", query, STAT_OK)
    /\ pc' = "printed"
    /\ UNCHANGED <<cfgArray, fw_build, comm_mode, query>>

NextAcc == NvSet \/ NvGet \/ NvPrint

SpecAcc == InitAcc /\ [][NextAcc]_vars

-----------------------------------------------------------------------------
(* Claims about the gatekeepers and the generic accessors (SpecAcc) *)

\* the node the request is made on
Node == nv_list[nv_body]

RangeSetters == {"set_01", "set_012", "set_0123"}

\* the legal values of a range restricted setter
LegalSet(set) ==
    {F(k) : k \in 0..(CASE set = "set_01" -> 1 [] set = "set_012" -> 2 [] OTHER -> 3)}

\* C4: a range restricted setter returns STAT_INPUT_VALUE_UNSUPPORTED and
\* leaves the storage cell unchanged for a value outside its legal set
\* (negative values included); it returns STAT_OK and stores the value for a
\* value inside it.
C4_RangeValidated ==
    [][(ret'.op = "nv_set" /\ query[1] \in Singles
            /\ Desc(query[1]).set \in RangeSetters) =>
        IF query[2] \in LegalSet(Desc(query[1]).set)
        THEN ret'.st = STAT_OK /\ F(target'[query[1]]) = query[2]
        ELSE /\ ret'.st = STAT_INPUT_VALUE_UNSUPPORTED
             /\ target'[query[1]] = target[query[1]]]_vars

\* C7: with a node index at or above the descriptor count nv_get and nv_set
\* return STAT_INTERNAL_RANGE_ERROR and nv_print returns; nothing is
\* dispatched, and the node, the storage and the records stay as they were.
C7_RangeErrorNoEffect ==
    [][(ret'.op \in {"nv_get", "nv_set", "nv_print"} /\ Node.index >= nv_index_max) =>
        /\ ret'.op # "nv_print" => ret'.st = STAT_INTERNAL_RANGE_ERROR
        /\ log' = <<>>
        /\ nv_list' = nv_list
        /\ target' = target
        /\ nvm' = nvm]_vars

C7_Witness ==
    /\ pc = "set_got"
    /\ Node.index = NO_MATCH
    /\ ret.op = "nv_get" /\ ret.st = STAT_INTERNAL_RANGE_ERROR

GenericPairs ==
    {<<"get_ui8", "set_ui8">>, <<"get_int", "set_int">>, <<"get_data", "set_data">>,
     <<"get_flt", "set_flt">>, <<"get_flu", "set_flu">>}

\* the value is one the storage type of the setter holds exactly
Representable(set, v) ==
    CASE set = "set_ui8" -> v >= 0 /\ v % Q = 0 /\ Trunc(v) <= 255
      [] set = "set_int" -> v >= 0 /\ v % Q = 0
      [] OTHER           -> TRUE

\* C10: for a descriptor bound to a matching generic get/set pair, in either
\* units mode, nv_set with node value v followed by nv_get on the same index
\* yields node value v.
C10_RoundTrip ==
    (/\ pc = "set_got"
     /\ query[1] \in Singles
     /\ <<Desc(query[1]).get, Desc(query[1]).set>> \in GenericPairs
     /\ Representable(Desc(query[1]).set, query[2]))
    => Node.value = query[2]

-----------------------------------------------------------------------------
(* The shared string arena (nvStr) *)

\* the bytes of strcpy(&nvStr.string[wp], src) that land past string[]
BytesPast(str, src) ==
    IF str.wp + Len(src) + 1 > NV_SHARED_STRING_LEN
    THEN str.wp + Len(src) + 1 - NV_SHARED_STRING_LEN
    ELSE 0

\* strcpy(&nvStr.string[wp], src): the characters of src, then a NUL.  A byte
\* whose offset is not below NV_SHARED_STRING_LEN is written past the array,
\* into the magic_end word that follows it in nvStr
StrCpyArena(str, src) ==
    [str EXCEPT
       !.string = [k \in 0..(NV_SHARED_STRING_LEN - 1) |->
                     IF k >= str.wp /\ k < str.wp + Len(src)
                     THEN src[k - str.wp + 1]
                     ELSE IF k = str.wp + Len(src) THEN NULc
                     ELSE str.string[k]],
       !.magic_end = IF BytesPast(str, src) > 0 THEN "CLOBBERED" ELSE @]

\* nv_copy_string with the test made after the head has been advanced
nv_copy_string_advancing(m, n, src) ==
    IF m.str.wp + Len(src) > NV_SHARED_STRING_LEN
    THEN Res(STAT_BUFFER_FULL, [m EXCEPT !.str.wp = @ + Len(src) + 1])
    ELSE Res(STAT_OK, m)

\* nv_copy_string(nv, src) for node n of the pool
nv_copy_string(m, n, src) ==
    IF m.str.wp + Len(src) > NV_SHARED_STRING_LEN
    THEN Res(STAT_BUFFER_FULL, m)
    ELSE Res(STAT_OK,
             [m EXCEPT !.str = [StrCpyArena(m.str, src) EXCEPT
                                   !.wp = m.str.wp + Len(src) + 1],
                       !.list[n].stringp = m.str.wp,
                       !.oob = BytesPast(m.str, src)])

\* the text a string reference designates: the bytes from offset p up to the
\* first NUL, or up to the end of the array
RECURSIVE StrAt(_, _)
StrAt(str, p) ==
    IF p >= NV_SHARED_STRING_LEN \/ str.string[p] = NULc THEN <<>>
    ELSE <<str.string[p]>> \o StrAt(str, p + 1)

-----------------------------------------------------------------------------
(* Specification SpecArena: the response list is reset and strings are      *)
(* copied into the arena for nodes of the body, in any order.               *)

\* the texts handed to nv_copy_string: runs of one letter, empty included
Texts == UNION {{[j \in 1..k |-> ch] : ch \in {"s", "t"}} : k \in 0..MaxText}

\* the nodes strings are copied for: the first two of the body
StringNodes == {nv_body, nv_body + 1}

InitArena ==
    /\ cfgArray = <<GroupItem(<<"g">>)>>
    /\ units = MILLIMETERS
    /\ comm_mode = TEXT_MODE
    /\ target = ZeroCells
    /\ nvm = ZeroCells
    /\ fw_build = FW_BUILD
    /\ query = <<>>
    /\ nvStr = [ZeroStr EXCEPT !.magic_end = MAGICNUM]
    /\ nv_list = ResetPool(ZeroList)
    /\ log = <<>>
    /\ ret = NoCall
    /\ oob = 0
    /\ pc = "run"

\* nv_reset_nvObj_list()
ResetList ==
    /\ Commit(nv_reset_nvObj_list(Machine))
    /\ ret' = Call("reset_list", <<ret.op>>, nv_body)
    /\ UNCHANGED <<cfgArray, fw_build, comm_mode, query>>

\* status = nv_copy_string(nv, src)
CopyString ==
    \E n \in StringNodes, src \in Texts :
       LET r == nv_copy_string(Machine, n, src) IN
       /\ Commit(r.m)
       /\ ret' = Call("nv_copy_string", <<n, src>>, r.st)
       /\ UNCHANGED <<cfgArray, fw_build, comm_mode, query>>

\* the position of the driver plays no part
NextArena == (ResetList /\ UNCHANGED pc) \/ (CopyString /\ UNCHANGED pc)

SpecArena == InitArena /\ [][NextArena]_vars

CopyFailed == ret.op = "nv_copy_string" /\ ret.st = STAT_BUFFER_FULL

CopyDone == ret.op = "nv_copy_string" /\ ret.st = STAT_OK

\* C5: a copy of a text longer than what is left of the arena (write offset
\* + length > NV_SHARED_STRING_LEN) returns STAT_BUFFER_FULL and changes
\* neither the write offset, nor the arena content, nor the string reference
\* of any node, the target node included.
C5_FullLeavesUnchanged ==
    [][(ret'.op = "nv_copy_string"
          /\ nvStr.wp + Len(ret'.arg[2]) > NV_SHARED_STRING_LEN) =>
         /\ ret'.st = STAT_BUFFER_FULL
         /\ nvStr' = nvStr
         /\ nv_list' = nv_list
         /\ oob' = 0]_vars

\* a copy has failed on an arena that holds text and has issued a reference
C5_Witness ==
    /\ CopyFailed
    /\ nvStr.wp > 0 /\ nvStr.wp <= NV_SHARED_STRING_LEN
    /\ nvStr.wp + Len(ret.arg[2]) > NV_SHARED_STRING_LEN
    /\ \E n \in StringNodes : nv_list[n].stringp # NULL
                            /\ StrAt(nvStr, nv_list[n].stringp) # <<>>

\* C6: whatever resets and copies have run, the write offset is at most
\* NV_SHARED_STRING_LEN and a successful copy has written no byte at or
\* past offset NV_SHARED_STRING_LEN, also when the text is exactly as long
\* as what was left.
C6_WritesInsideArena ==
    /\ nvStr.wp <= NV_SHARED_STRING_LEN
    /\ CopyDone => oob = 0 /\ nvStr.magic_end = MAGICNUM

-----------------------------------------------------------------------------
(* Specification SpecGrp: groups are expanded into the response list.  The  *)
(* initial state draws the table; the actions reset the list and call       *)
(* nv_get on a body node that the front end has set to a group's token and  *)
(* index.                                                                   *)

\* the group names of the table: the tokens of its group entries
GroupNames ==
    {cfgArray[k].token : k \in {j \in 1..Len(cfgArray) : cfgArray[j].get = "get_grp"}}

\* the letter that tells the tokens of a table apart, by table position
Letter(k) == <<"a", "b", "c", "d", "e">>[k]

\* the descriptors one position of a table may hold: a member of x, a member
\* of sys (NO-STRIP, the token does not carry the group), or no group
GrpItemsAt(k) ==
    {Item(<<"x">>, <<"x", Letter(k)>>, {}, "get_flt", "set_flt", 0, 2),
     Item(<<"s", "y", "s">>, <<"f", Letter(k)>>, {F_NOSTRIP}, "get_int", "set_int", 0, 0),
     Item(NUL, <<"u", Letter(k)>>, {}, "get_data", "set_data", 0, 0)}

RECURSIVE GrpSingles(_)
GrpSingles(k) ==
    IF k = 0 THEN {<<>>}
    ELSE {Append(q, x) : q \in GrpSingles(k - 1), x \in GrpItemsAt(k)}

\* the group entries follow the singles
TablesGrp ==
    {t \o <<GroupItem(<<"x">>), GroupItem(<<"s", "y", "s">>)>> :
        t \in GrpSingles(NumSinglesList)}

BodySlots == nv_body..NV_BODY_LEN

InitGrp ==
    /\ cfgArray \in TablesGrp
    /\ units = MILLIMETERS
    /\ comm_mode = TEXT_MODE
    /\ target = [i \in 0..(Len(cfgArray) - 1) |->
                    IF nv_index_is_single(i) THEN i + 1 ELSE 0]
    /\ nvm = ZeroCells
    /\ fw_build = FW_BUILD
    /\ query = <<>>
    /\ nvStr = [ZeroStr EXCEPT !.magic_end = MAGICNUM]
    /\ nv_list = ResetPool(ZeroList)
    /\ log = <<>>
    /\ ret = Call("reset_list", <<"none">>, nv_body)
    /\ oob = 0
    /\ pc = "run"

\* nv->token = G; nv->index = nv_get_index("", G); status = nv_get(nv), which
\* dispatches to get_grp(nv).  The call records the operation that ran
\* before it.
GetGrp ==
    \E n \in BodySlots, G \in GroupNames :
       LET i  == nv_get_index(NUL, G)
           m0 == [Machine EXCEPT !.list[n].token = G, !.list[n].index = i]
           r  == nv_get(m0, n)
       IN /\ Commit(r.m)
          /\ ret' = Call("get_grp", <<n, G, ret.op>>, r.st)
          /\ UNCHANGED <<cfgArray, fw_build, comm_mode, query>>

NextGrp == (ResetList /\ UNCHANGED pc) \/ (GetGrp /\ UNCHANGED pc)

SpecGrp == InitGrp /\ [][NextGrp]_vars

\* the single-valued descriptors whose group field is G
GroupMembers(G) == {i \in Singles : Desc(i).group = G}

\* the k-th of them in table order
MemberAt(G, k) ==
    CHOOSE i \in GroupMembers(G) :
        Cardinality({j \in GroupMembers(G) : j < i}) = k - 1

\* C8: get_grp on a node whose token names group G returns STAT_OK, marks
\* the node as parent and fills the slots after it with one child per
\* single-valued descriptor of group G, in table order, and with nothing
\* else: the k-th child is a slot of the list, carries the k-th member's
\* index and its getter's value and, unless the member is NO-STRIP, its
\* token with the prefix G removed.
C8_GroupExpanded ==
    [][ret'.op = "get_grp" =>
         LET n   == ret'.arg[1]
             G   == ret'.arg[2]
             cnt == Cardinality(GroupMembers(G))
         IN /\ ret'.st = STAT_OK
            /\ nv_list'[n].valuetype = TYPE_PARENT
            /\ \A k \in 1..cnt :
                 /\ InPool(n + k)
                 /\ nv_list'[n + k].index = MemberAt(G, k)
                 /\ nv_list'[n + k].value = CellAsFloat(MemberAt(G, k))
                 /\ F_NOSTRIP \notin Desc(MemberAt(G, k)).flags =>
                      Desc(MemberAt(G, k)).token = G \o nv_list'[n + k].token
            /\ \A j \in 0..(NV_LIST_LEN - 1) :
                 (j < n \/ j > n + cnt) => nv_list'[j] = nv_list[j]]_vars

\* get_grp has just expanded a group on the first body node of a list that
\* had just been reset
FirstExpansion ==
    ret.op = "get_grp" /\ ret.arg[1] = nv_body /\ ret.arg[3] = "reset_list"

\* C9 as stated: after reset_list, the children get_grp puts behind the
\* first body node all have depth 1.
C9_ChildrenDepth1 ==
    [][(ret'.op = "get_grp" /\ ret'.arg[1] = nv_body /\ ret.op = "reset_list") =>
         \A k \in 1..Cardinality(GroupMembers(ret'.arg[2])) :
            InPool(nv_body + k) => nv_list'[nv_body + k].depth = 1]_vars

\* C9: after reset_list, the children get_grp puts behind the first body
\* node all have depth 2, one more than the depth 1 of their parent.
C9_ChildrenDepth2 ==
    [][(ret'.op = "get_grp" /\ ret'.arg[1] = nv_body /\ ret.op = "reset_list") =>
         /\ nv_list'[nv_body].depth = 1
         /\ \A k \in 1..Cardinality(GroupMembers(ret'.arg[2])) :
              InPool(nv_body + k) => nv_list'[nv_body + k].depth = 2]_vars

\* a group of two members or more has been expanded on the first body node
\* of a fresh list
C9_Witness ==
    /\ FirstExpansion
    /\ Cardinality(GroupMembers(ret.arg[2])) >= 2
    /\ nv_list[nv_body].valuetype = TYPE_PARENT
    /\ nv_list[nv_body + 1].depth = 2
    /\ nv_list[nv_body + 2].depth = 2

-----------------------------------------------------------------------------
(* Further claims on the gatekeepers (SpecAcc) *)

\* C11: set_flu, in either units mode, writes the millimeter value to the
\* backing storage and leaves the node's value as the caller supplied it.
C11_NodeValueKept ==
    [][(ret'.op = "nv_set" /\ query[1] \in Singles
          /\ Desc(query[1]).set = "set_flu") =>
         /\ target'[query[1]] = IF units = INCHES THEN MulMMPerInch(query[2])
                                ELSE query[2]
         /\ nv_list'[nv_body].value = nv_list[nv_body].value]_vars

-----------------------------------------------------------------------------
(* Specification SpecSetGrp: set_grp runs on a parent node of the body.  The *)
(* initial state draws the table, the communication mode, the position of   *)
(* the parent and the nodes behind it: empty, null (a read request) or      *)
(* carrying a value (a write request).                                      *)

\* the descriptors one position of a table may hold: a persisted float, an
\* unpersisted integer, a persisted flag that accepts 0 and 1 only
SetGrpItemsAt(k) ==
    {Item(<<"g">>, <<"g", Letter(k)>>, {F_PERSIST}, "get_flt", "set_flt", 0, 2),
     Item(<<"g">>, <<"g", Letter(k)>>, {}, "get_ui8", "set_ui8", 0, 0),
     Item(<<"g">>, <<"g", Letter(k)>>, {F_PERSIST}, "get_ui8", "set_01", 0, 0)}

RECURSIVE SetGrpSingles(_)
SetGrpSingles(k) ==
    IF k = 0 THEN {<<>>}
    ELSE {Append(q, x) : q \in SetGrpSingles(k - 1), x \in SetGrpItemsAt(k)}

TablesSetGrp == {t \o <<GroupItem(<<"g">>)>> : t \in SetGrpSingles(NumSinglesAcc)}

\* what the front end has put in a node behind the parent
ChildKinds ==
    {[valuetype |-> TYPE_EMPTY, index |-> 0, value |-> 0]}
    \cup {[valuetype |-> TYPE_NULL, index |-> i, value |-> 0] : i \in Singles}
    \cup {[valuetype |-> TYPE_FLOAT, index |-> i, value |-> v] :
             i \in Singles, v \in {F(1), F(2)}}

\* the lists with the parent in slot p
ListsFor(p) ==
    {[k \in 0..(NV_LIST_LEN - 1) |->
        IF k = p
        THEN [ResetPool(ZeroList)[k] EXCEPT
                 !.valuetype = TYPE_PARENT, !.index = NV_INDEX_END_SINGLES,
                 !.token = <<"g">>]
        ELSE IF k > p
        THEN [ResetPool(ZeroList)[k] EXCEPT
                 !.valuetype = f[k].valuetype, !.index = f[k].index,
                 !.value = f[k].value]
        ELSE ResetPool(ZeroList)[k]] :
     f \in [(p + 1)..(NV_LIST_LEN - 1) -> ChildKinds]}

InitSetGrp ==
    /\ cfgArray \in TablesSetGrp
    /\ units = MILLIMETERS
    /\ comm_mode \in {TEXT_MODE, JSON_MODE}
    /\ target = ZeroCells
    /\ nvm = ZeroCells
    /\ fw_build = FW_BUILD
    /\ query \in {<<p>> : p \in BodySlots}
    /\ nvStr = [ZeroStr EXCEPT !.magic_end = MAGICNUM]
    /\ nv_list \in ListsFor(query[1])
    /\ log = <<>>
    /\ ret = NoCall
    /\ oob = 0
    /\ pc = "ready"

\* status = set_grp(nv), nv the parent
SetGrp ==
    /\ pc = "ready"
    /\ \E ub \in UBCast :
         LET r == set_grp(Machine, query[1], ub) IN
         /\ Commit(r.m)
         /\ ret' = Call("set_grp", query, r.st)
    /\ pc' = "done"
    /\ UNCHANGED <<cfgArray, fw_build, comm_mode, query>>

NextSetGrp == SetGrp

SpecSetGrp == InitSetGrp /\ [][NextSetGrp]_vars

\* C12: set_grp in line-text mode returns STAT_UNRECOGNIZED_COMMAND, has
\* dispatched no get, set or persist and has changed no list node, no
\* backing storage and no nonvolatile record.
C12_TextModeRejected ==
    [][(ret'.op = "set_grp" /\ comm_mode = TEXT_MODE) =>
         /\ ret'.st = STAT_UNRECOGNIZED_COMMAND
         /\ log' = <<>>
         /\ nv_list' = nv_list
         /\ target' = target
         /\ nvm' = nvm]_vars

\* set_grp was rejected in text mode on a parent followed by a write request
C12_Witness ==
    /\ ret.op = "set_grp" /\ ret.st = STAT_UNRECOGNIZED_COMMAND
    /\ comm_mode = TEXT_MODE
    /\ nv_list[query[1] + 1].valuetype = TYPE_FLOAT
    /\ nv_list[query[1] + 1].value = F(1)
    /\ target[nv_list[query[1] + 1].index] = 0

-----------------------------------------------------------------------------
(* Adding nodes to the body of the list *)

\* the scan without its limit of NV_BODY_LEN nodes
RECURSIVE FirstEmptyNoLimit(_, _, _)
FirstEmptyNoLimit(list, n, i) ==
    IF list[n].valuetype # TYPE_EMPTY
    THEN IF list[n].nx = NULL THEN NULL
         ELSE FirstEmptyNoLimit(list, list[n].nx, i + 1)
    ELSE n

\* the loop head the nv_add_ functions share: the first empty node among
\* the NV_BODY_LEN nodes from nv_body on, or NULL
RECURSIVE FirstEmpty(_, _, _)
FirstEmpty(list, n, i) ==
    IF i >= NV_BODY_LEN THEN NULL
    ELSE IF list[n].valuetype # TYPE_EMPTY
         THEN IF list[n].nx = NULL THEN NULL
              ELSE FirstEmpty(list, list[n].nx, i + 1)
         ELSE n

\* the result of an add: the node returned (or NULL) and the machine
Added(nv, m) == [nv |-> nv, m |-> m]

nv_add_object(m, token) ==
    LET n == FirstEmpty(m.list, nv_body, 0) IN
    IF n = NULL THEN Added(NULL, m)
    ELSE LET i  == nv_get_index(NUL, token)
             m1 == [m EXCEPT !.list[n].index = i]
         IN  IF i = NO_MATCH THEN Added(NULL, m1)
             ELSE Added(n, nv_get_nvObj(m1, n))

nv_add_integer(m, token, value) ==
    LET n == FirstEmpty(m.list, nv_body, 0) IN
    IF n = NULL THEN Added(NULL, m)
    ELSE Added(n, [m EXCEPT !.list[n].token = StrnCpyToken(token),
                            !.list[n].value = F(value),
                            !.list[n].valuetype = TYPE_INTEGER])

\* strcpy(nv->token, token) is not bounded: the characters past TOKEN_LEN and
\* the terminator behind them land outside token[]
nv_add_data(m, token, value) ==
    LET n == FirstEmpty(m.list, nv_body, 0) IN
    IF n = NULL THEN Added(NULL, m)
    ELSE Added(n, [m EXCEPT !.list[n].token = StrnCpyToken(token),
                            !.list[n].value = BitsToFloat(value),
                            !.list[n].valuetype = TYPE_DATA,
                            !.oob = IF Len(token) > TOKEN_LEN
                                    THEN Len(token) - TOKEN_LEN ELSE 0])

nv_add_float(m, token, value) ==
    LET n == FirstEmpty(m.list, nv_body, 0) IN
    IF n = NULL THEN Added(NULL, m)
    ELSE Added(n, [m EXCEPT !.list[n].token = StrnCpyToken(token),
                            !.list[n].value = value,
                            !.list[n].valuetype = TYPE_FLOAT])

nv_add_string(m, token, string) ==
    LET n == FirstEmpty(m.list, nv_body, 0) IN
    IF n = NULL THEN Added(NULL, m)
    ELSE LET m1 == [m EXCEPT !.list[n].token = StrnCpyToken(token)]
             r  == nv_copy_string(m1, n, string)
         IN  IF r.st # STAT_OK THEN Added(NULL, r.m)
             ELSE Added(n, [r.m EXCEPT
                              !.list[n].index = nv_get_index(NUL, m1.list[n].token),
                              !.list[n].valuetype = TYPE_STRING])

-----------------------------------------------------------------------------
(* Specification SpecAdd: the list is reset and nodes are added to its body *)
(* with the nv_add_ functions, in any order.                                *)

\* the tokens handed to nv_add_object: those of the table, single-valued
\* and groups, and one the table does not hold
ObjectTokens == {cfgArray[k].token : k \in 1..Len(cfgArray)} \cup {<<"z">>}

\* the texts handed to nv_add_string
AddTexts == {<<"s">>, <<"t", "t", "t">>}

\* the value handed to nv_add_integer, nv_add_data and nv_add_float
AddValue == 3

Adds ==
    {"nv_add_object", "nv_add_integer", "nv_add_data", "nv_add_float",
     "nv_add_string"}

\* nv = nv_add_object(token)
AddObject ==
    \E token \in ObjectTokens :
       LET r == nv_add_object(Machine, token) IN
       /\ Commit(r.m)
       /\ ret' = Call("nv_add_object", <<token>>, r.nv)
       /\ UNCHANGED <<cfgArray, fw_build, comm_mode, query>>

\* nv = nv_add_integer("n", value)
AddInteger ==
    LET r == nv_add_integer(Machine, <<"n">>, AddValue) IN
    /\ Commit(r.m)
    /\ ret' = Call("nv_add_integer", <<<<"n">>>>, r.nv)
    /\ UNCHANGED <<cfgArray, fw_build, comm_mode, query>>

\* nv = nv_add_data("d", value)
AddData ==
    LET r == nv_add_data(Machine, <<"d">>, AddValue) IN
    /\ Commit(r.m)
    /\ ret' = Call("nv_add_data", <<<<"d">>>>, r.nv)
    /\ UNCHANGED <<cfgArray, fw_build, comm_mode, query>>

\* nv = nv_add_float("f", value)
AddFloat ==
    LET r == nv_add_float(Machine, <<"f">>, F(AddValue)) IN
    /\ Commit(r.m)
    /\ ret' = Call("nv_add_float", <<<<"f">>>>, r.nv)
    /\ UNCHANGED <<cfgArray, fw_build, comm_mode, query>>

\* nv = nv_add_string("m", string)
AddString ==
    \E string \in AddTexts :
       LET r == nv_add_string(Machine, <<"m">>, string) IN
       /\ Commit(r.m)
       /\ ret' = Call("nv_add_string", <<<<"m">>, string>>, r.nv)
       /\ UNCHANGED <<cfgArray, fw_build, comm_mode, query>>

\* the driver makes MaxCalls calls at most; pc counts them
Counted == pc < MaxCalls /\ pc' = pc + 1

\* the table of the runs: the last single-valued descriptor has no group,
\* those before it are the members of x
TablesAdd ==
    {t \in TablesGrp :
        /\ t[NumSinglesList].group = NUL
        /\ \A k \in 1..(NumSinglesList - 1) : t[k].group = <<"x">>}

\* the state after nv_reset_nvObj_list, no call made yet
InitAdd ==
    /\ cfgArray \in TablesAdd
    /\ units = MILLIMETERS
    /\ comm_mode = TEXT_MODE
    /\ target = [i \in 0..(Len(cfgArray) - 1) |->
                    IF nv_index_is_single(i) THEN i + 1 ELSE 0]
    /\ nvm = ZeroCells
    /\ fw_build = FW_BUILD
    /\ query = <<>>
    /\ nvStr = [ZeroStr EXCEPT !.magic_end = MAGICNUM]
    /\ nv_list = ResetPool(ZeroList)
    /\ log = <<>>
    /\ ret = Call("reset_list", <<"none">>, nv_body)
    /\ oob = 0
    /\ pc = 0

NextAdd ==
    \/ Counted /\ ResetList
    \/ Counted /\ AddObject
    \/ Counted /\ AddInteger
    \/ Counted /\ AddData
    \/ Counted /\ AddFloat
    \/ Counted /\ AddString

SpecAdd == InitAdd /\ [][NextAdd]_vars

\* the slot the next add selects, or NULL
Selected == FirstEmpty(nv_list, nv_body, 0)

\* C13: when nv_add_string cannot copy its text into the arena it returns
\* no node and the slot it selected is as before the call: same kind
\* (empty), same token, same index, same string reference.
C13_FailedAddLeavesSlot ==
    [][(ret'.op = "nv_add_string" /\ Selected # NULL
          /\ nvStr.wp + Len(ret'.arg[2]) > NV_SHARED_STRING_LEN) =>
         /\ ret'.st = NULL
         /\ nv_list'[Selected].valuetype = TYPE_EMPTY
         /\ nv_list'[Selected].token = nv_list[Selected].token
         /\ nv_list'[Selected].index = nv_list[Selected].index
         /\ nv_list'[Selected].stringp = nv_list[Selected].stringp]_vars

\* the number of body nodes that are not empty
Filled == Cardinality({k \in BodySlots : nv_list[k].valuetype # TYPE_EMPTY})

\* the body nodes that are not empty come first
IsPrefix ==
    \A k \in BodySlots :
       nv_list[k].valuetype # TYPE_EMPTY =>
          \A j \in nv_body..k : nv_list[j].valuetype # TYPE_EMPTY

\* the kind a getter gives its node
KindOf(get) ==
    CASE get = "get_grp"                -> TYPE_PARENT
      [] get \in {"get_ui8", "get_int"} -> TYPE_INTEGER
      [] get = "get_data"               -> TYPE_DATA
      [] get \in {"get_flt", "get_flu"} -> TYPE_FLOAT
      [] OTHER                          -> TYPE_NULL

\* the kind a successful add gives its node
AddKind(call) ==
    CASE call.op = "nv_add_integer" -> TYPE_INTEGER
      [] call.op = "nv_add_data"    -> TYPE_DATA
      [] call.op = "nv_add_float"   -> TYPE_FLOAT
      [] call.op = "nv_add_string"  -> TYPE_STRING
      [] OTHER -> KindOf(Desc(nv_get_index(NUL, call.arg[1])).get)

\* the members get_grp puts behind the node of an add: those of the group,
\* when nv_add_object was given the token of a group
FanOut(call) ==
    IF call.op = "nv_add_object" /\ nv_get_index(NUL, call.arg[1]) # NO_MATCH
       /\ AddKind(call) = TYPE_PARENT
    THEN Cardinality(GroupMembers(call.arg[1]))
    ELSE 0

nv_header == 0

nv_footer == NV_LIST_LEN - 1

\* C20 as stated: the nodes of the body that are not empty are its first
\* ones, the k-th successful add fills body slot k, and only that slot, with
\* the kind of its variant, header and footer are never modified, and an add
\* on a full body returns no node and changes neither list nor arena.
C20_AddsFillInOrder ==
    [][ret'.op \in Adds =>
         /\ nv_list'[nv_header] = nv_list[nv_header]
         /\ nv_list'[nv_footer] = nv_list[nv_footer]
         /\ IsPrefix'
         /\ ret'.st # NULL =>
              /\ ret'.st = Filled + 1
              /\ Filled' = Filled + 1
              /\ nv_list'[ret'.st].valuetype = AddKind(ret')
         /\ Filled = NV_BODY_LEN =>
              ret'.st = NULL /\ nv_list' = nv_list /\ nvStr' = nvStr]_vars

\* C20: the nodes of the body that are not empty are its first ones; a
\* successful add fills the first empty body slot with the kind of its
\* variant, and nv_add_object of a group's token fills the slots behind it
\* with the members of the group, the footer included when they run past
\* the body; the header is never modified, the footer by nothing else; an
\* add on a full body returns no node and changes neither list nor arena.
C20_AddsFillFirstEmpty ==
    [][ret'.op \in Adds =>
         /\ nv_list'[nv_header] = nv_list[nv_header]
         /\ nv_list'[nv_footer] # nv_list[nv_footer] =>
              ret'.st # NULL /\ Filled + 1 + FanOut(ret') > NV_BODY_LEN
         /\ IsPrefix'
         /\ ret'.st # NULL =>
              /\ ret'.st = Filled + 1
              /\ Filled' = IF Filled + 1 + FanOut(ret') > NV_BODY_LEN
                           THEN NV_BODY_LEN ELSE Filled + 1 + FanOut(ret')
              /\ nv_list'[ret'.st].valuetype = AddKind(ret')
         /\ Filled = NV_BODY_LEN =>
              ret'.st = NULL /\ nv_list' = nv_list /\ nvStr' = nvStr]_vars

\* an add has been refused on a body that three adds of different variants
\* have filled
C20_Witness ==
    /\ ret.op \in Adds /\ ret.st = NULL
    /\ Filled = NV_BODY_LEN
    /\ \A k \in BodySlots : nv_list[k].valuetype # TYPE_PARENT
    /\ nv_list[nv_body].valuetype # nv_list[nv_body + 1].valuetype
    /\ nv_list[nv_footer].valuetype = TYPE_EMPTY

-----------------------------------------------------------------------------
(* Specification SpecList: every operation on the nodes of the list, in any *)
(* order: the reset of the list, the adds, get_grp, nv_get_nvObj and        *)
(* nv_reset_nvObj.                                                          *)

\* nv->index = i; nv_get_nvObj(nv)
GetNvObj ==
    \E n \in BodySlots, i \in 0..nv_index_max :
       /\ Commit(nv_get_nvObj([Machine EXCEPT !.list[n].index = i], n))
       /\ ret' = Call("nv_get_nvObj", <<n, i>>, STAT_OK)
       /\ UNCHANGED <<cfgArray, fw_build, comm_mode, query>>

\* nv_reset_nvObj(nv)
ResetNvObj ==
    \E n \in BodySlots :
       /\ Commit([Machine EXCEPT !.list = nv_reset_nvObj(@, n)])
       /\ ret' = Call("nv_reset_nvObj", <<n>>, STAT_OK)
       /\ UNCHANGED <<cfgArray, fw_build, comm_mode, query>>

\* the runs of this specification are MaxListCalls calls long at most
CountedList == pc < MaxListCalls /\ pc' = pc + 1

NextList ==
    \/ CountedList /\ ResetList
    \/ CountedList /\ AddObject
    \/ CountedList /\ AddInteger
    \/ CountedList /\ AddData
    \/ CountedList /\ AddFloat
    \/ CountedList /\ AddString
    \/ CountedList /\ GetGrp
    \/ CountedList /\ GetNvObj
    \/ CountedList /\ ResetNvObj

SpecList == InitAdd /\ [][NextList]_vars

\* C14: a second reset_list right after a first changes nothing: the nodes
\* (fields and links) and the arena, write offset included, are as the
\* first reset left them.
C14_ResetIdempotent ==
    [][(ret.op = "reset_list" /\ ret'.op = "reset_list") =>
         nv_list' = nv_list /\ nvStr' = nvStr]_vars

\* the list has been reset twice in a row after calls that left a value or
\* a string reference in the body
C14_Witness ==
    /\ ret.op = "reset_list" /\ ret.arg[1] = "reset_list"
    /\ nvStr.wp = 0
    /\ \E k \in BodySlots :
          nv_list[k].value # 0 \/ nv_list[k].stringp # NULL

\* node n has the depth its predecessor implies
DepthOk(n) ==
    nv_list[n].pv # NULL =>
       nv_list[n].depth =
          IF nv_list[nv_list[n].pv].valuetype = TYPE_PARENT
          THEN nv_list[nv_list[n].pv].depth + 1
          ELSE nv_list[nv_list[n].pv].depth

\* C15 as stated: in every state every node that has a predecessor has the
\* depth of the predecessor, plus one if the predecessor is a parent.
C15_DepthInvariant == \A n \in 0..(NV_LIST_LEN - 1) : DepthOk(n)

\* the children get_grp puts behind node n for group G, as far as they are
\* nodes of the list
ChildSlots(n, G) ==
    {k \in 0..(NV_LIST_LEN - 1) :
        k > n /\ k <= n + Cardinality(GroupMembers(G))}

\* the nodes a call resets
ResetBy(call) ==
    CASE call.op = "reset_list"     -> 0..(NV_LIST_LEN - 1)
      [] call.op = "nv_reset_nvObj" -> {call.arg[1]}
      [] call.op = "get_grp"        -> ChildSlots(call.arg[1], call.arg[2])
      [] call.op = "nv_get_nvObj" /\ call.arg[2] < nv_index_max ->
            {call.arg[1]} \cup
            IF Desc(call.arg[2]).get = "get_grp"
            THEN ChildSlots(call.arg[1], Desc(call.arg[2]).token) ELSE {}
      [] call.op = "nv_add_object" /\ call.st # NULL ->
            {call.st} \cup
            IF AddKind(call) = TYPE_PARENT
            THEN ChildSlots(call.st, call.arg[1]) ELSE {}
      [] OTHER -> {}

\* C15: a depth is computed when its node is reset and at no other time:
\* after each call the nodes the call has reset (by reset_list,
\* nv_reset_nvObj, nv_get_nvObj, a successful nv_add_object, or as a child
\* of get_grp) have the depth their predecessor implies, and every other
\* node has the depth it had.
C15_DepthSetOnReset ==
    [][\A n \in 0..(NV_LIST_LEN - 1) :
          IF n \in ResetBy(ret') THEN DepthOk(n)'
          ELSE nv_list'[n].depth = nv_list[n].depth]_vars

\* get_grp has put a child at depth 2 behind the first body node, and the
\* node behind the children is not at the depth its predecessor implies
C15_Witness ==
    /\ ret.op = "get_grp" /\ ret.arg[1] = nv_body
    /\ Cardinality(GroupMembers(ret.arg[2])) >= 1
    /\ nv_list[nv_body].valuetype = TYPE_PARENT
    /\ nv_list[nv_body + 1].depth = 2
    /\ DepthOk(nv_body + 1)
    /\ ~DepthOk(nv_body + 1 + Cardinality(GroupMembers(ret.arg[2])))

-----------------------------------------------------------------------------
(* Specification SpecPersist: nv_persist is called on a node whose index    *)
(* and value the initial state draws, over tables with and without the      *)
(* PERSIST flag.                                                            *)

InitPersist ==
    /\ cfgArray \in TablesSetGrp
    /\ units = MILLIMETERS
    /\ comm_mode = TEXT_MODE
    /\ target = ZeroCells
    /\ nvm = ZeroCells
    /\ fw_build = FW_BUILD
    /\ query \in NodeIndices \X InputValues
    /\ nvStr = [ZeroStr EXCEPT !.magic_end = MAGICNUM]
    /\ nv_list = RequestList(query[1], query[2])
    /\ log = <<>>
    /\ ret = NoCall
    /\ oob = 0
    /\ pc = "ready"

\* nv_persist(nv_body)
NvPersist ==
    /\ pc = "ready"
    /\ Commit(nv_persist(Machine, nv_body))
    /\ ret' = Call("nv_persist", query, STAT_OK)
    /\ pc' = "done"
    /\ UNCHANGED <<cfgArray, fw_build, comm_mode, query>>

NextPersist == NvPersist

SpecPersist == InitPersist /\ [][NextPersist]_vars

\* the calls of the nonvolatile write service among the events of a log
NvmWrites(l) == SelectSeq(l, LAMBDA e : e.ev = "nvm_write")

\* C16: nv_persist calls the nonvolatile write service, once and for the
\* node's index and value, exactly when the index is below the first group
\* index and its descriptor has the PERSIST flag; otherwise no record
\* changes.  Backing storage and node are never modified.
C16_PersistIffFlagged ==
    [][ret'.op = "nv_persist" =>
         /\ IF query[1] < NV_INDEX_END_SINGLES
               /\ F_PERSIST \in Desc(query[1]).flags
            THEN /\ NvmWrites(log') = <<Ev("nvm_write", query[1], query[2])>>
                 /\ nvm' = [nvm EXCEPT ![query[1]] = query[2]]
            ELSE /\ NvmWrites(log') = <<>>
                 /\ nvm' = nvm
         /\ target' = target
         /\ nv_list' = nv_list]_vars

\* a value has been written to the record of a PERSIST descriptor
C16_Witness ==
    /\ ret.op = "nv_persist"
    /\ query[1] < NV_INDEX_END_SINGLES
    /\ F_PERSIST \in Desc(query[1]).flags
    /\ query[2] = F(1)
    /\ nvm[query[1]] = F(1)
    /\ NvmWrites(log) # <<>>

-----------------------------------------------------------------------------
(* Specification SpecReserved: the reserved groups.  The tables hold        *)
(* members of "sr" and of "sys", which carry the NO-STRIP flag, and members *)
(* of x; the actions reset the list, expand a group and ask                 *)
(* nv_group_is_prefixed about a group name.                                 *)

\* nv_group_is_prefixed without the test for "sr"
nv_group_is_prefixed_sys_only(group) == group # <<"s", "y", "s">>

nv_group_is_prefixed(group) ==
    IF group = <<"s", "r">> THEN FALSE
    ELSE IF group = <<"s", "y", "s">> THEN FALSE
    ELSE TRUE

ReservedGroups == {<<"s", "r">>, <<"s", "y", "s">>}

ReservedItemsAt(k) ==
    {Item(<<"s", "r">>, <<"p", Letter(k)>>, {F_NOSTRIP}, "get_flt", "set_flt", 0, 2),
     Item(<<"s", "y", "s">>, <<"f", Letter(k)>>, {F_NOSTRIP}, "get_int", "set_int", 0, 0),
     Item(<<"x">>, <<"x", Letter(k)>>, {}, "get_ui8", "set_ui8", 0, 0)}

RECURSIVE ReservedSingles(_)
ReservedSingles(k) ==
    IF k = 0 THEN {<<>>}
    ELSE {Append(q, x) : q \in ReservedSingles(k - 1), x \in ReservedItemsAt(k)}

TablesReserved ==
    {t \o <<GroupItem(<<"x">>), GroupItem(<<"s", "r">>), GroupItem(<<"s", "y", "s">>)>> :
        t \in ReservedSingles(NumSinglesList)}

\* the names nv_group_is_prefixed is asked about
AskedGroups ==
    ReservedGroups \cup {NUL, <<"x">>, <<"s">>, <<"s", "y">>, <<"s", "r", "x">>}

InitReserved ==
    /\ cfgArray \in TablesReserved
    /\ units = MILLIMETERS
    /\ comm_mode = TEXT_MODE
    /\ target = [i \in 0..(Len(cfgArray) - 1) |->
                    IF nv_index_is_single(i) THEN i + 1 ELSE 0]
    /\ nvm = ZeroCells
    /\ fw_build = FW_BUILD
    /\ query = <<>>
    /\ nvStr = [ZeroStr EXCEPT !.magic_end = MAGICNUM]
    /\ nv_list = ResetPool(ZeroList)
    /\ log = <<>>
    /\ ret = Call("reset_list", <<"none">>, nv_body)
    /\ oob = 0
    /\ pc = 0

\* nv_group_is_prefixed(group)
GroupIsPrefixed ==
    \E group \in AskedGroups :
       /\ ret' = Call("nv_group_is_prefixed", <<group>>,
                      IF nv_group_is_prefixed(group) THEN "true" ELSE "false")
       /\ log' = <<>>
       /\ oob' = 0
       /\ UNCHANGED <<cfgArray, target, nvm, fw_build, units, comm_mode,
                      nv_list, nvStr, query>>

NextReserved ==
    \/ CountedList /\ ResetList
    \/ CountedList /\ GetGrp
    \/ CountedList /\ GroupIsPrefixed

SpecReserved == InitReserved /\ [][NextReserved]_vars

-----------------------------------------------------------------------------
(* Further claims on set_grp (SpecSetGrp) *)

\* the gets, sets and persists among the events of a log
Dispatches(l) == SelectSeq(l, LAMBDA e : e.ev \in {"get", "set", "persist"})

\* what set_grp is to dispatch from node k on, c nodes having been visited
RECURSIVE ExpectedFrom(_, _)
ExpectedFrom(k, c) ==
    IF c >= NV_MAX_OBJECTS \/ k > NV_LIST_LEN - 1 THEN <<>>
    ELSE IF nv_list[k].valuetype = TYPE_EMPTY THEN <<>>
    ELSE IF nv_list[k].valuetype = TYPE_NULL
         THEN <<Ev("get", nv_list[k].index, 0)>> \o ExpectedFrom(k + 1, c + 1)
         ELSE <<Ev("set", nv_list[k].index, nv_list[k].value),
                Ev("persist", nv_list[k].index, nv_list[k].value)>>
              \o ExpectedFrom(k + 1, c + 1)

\* C18: in structured-object mode set_grp visits the nodes behind the
\* parent in list order, up to the first empty node, the end of the list or
\* NV_MAX_OBJECTS nodes; for a null node it dispatches get only, for any
\* other node set and then persist; nothing is dispatched on a node at or
\* behind the first empty one.
C18_VisitsInOrder ==
    [][(ret'.op = "set_grp" /\ comm_mode = JSON_MODE) =>
         /\ ret'.st = STAT_OK
         /\ Dispatches(log') = ExpectedFrom(query[1] + 1, 0)]_vars

\* set_grp has read the first node behind the parent and written the second
C18_Witness ==
    /\ ret.op = "set_grp" /\ comm_mode = JSON_MODE
    /\ Len(Dispatches(log)) = 3
    /\ Dispatches(log)[1].ev = "get"
    /\ Dispatches(log)[2].ev = "set"
    /\ Dispatches(log)[3].ev = "persist"
    /\ Dispatches(log)[3].v = F(1)

-----------------------------------------------------------------------------
(* Further claims on config_init (SpecInit) *)

\* what the DEFAULTS path is to do for the descriptors from index i on: set,
\* then persist, for each one flagged INITIALIZE; the persist of a PERSIST
\* descriptor calls the nonvolatile write service
RECURSIVE DefaultsFrom(_)
DefaultsFrom(i) ==
    IF i >= NV_INDEX_END_SINGLES THEN <<>>
    ELSE IF F_INITIALIZE \in Desc(i).flags
         THEN <<Ev("set", i, Desc(i).def_value),
                Ev("persist", i, Desc(i).def_value)>>
              \o (IF F_PERSIST \in Desc(i).flags
                  THEN <<Ev("nvm_write", i, Desc(i).def_value)>> ELSE <<>>)
              \o DefaultsFrom(i + 1)
         ELSE DefaultsFrom(i + 1)

\* C19: on the DEFAULTS path set and then persist are dispatched for each
\* INITIALIZE descriptor in ascending table order, the initializing message
\* and the re-initialization of the status report come after the last
\* persist, and nothing is output in between.
C19_PersistBeforeOutput ==
    DefaultsDone =>
        log = DefaultsFrom(0) \o <<Ev("msg_initializing", 0, 0), Ev("sr_init", 0, 0)>>

\* the DEFAULTS path has run over two INITIALIZE descriptors or more, one of
\* them flagged PERSIST
C19_Witness ==
    /\ DefaultsDone
    /\ Cardinality({i \in Singles : F_INITIALIZE \in Desc(i).flags}) >= 2
    /\ \E i \in Singles : {F_INITIALIZE, F_PERSIST} \subseteq Desc(i).flags
    /\ Len(log) >= 7
    /\ log[Len(log) - 1].ev = "msg_initializing"

-----------------------------------------------------------------------------
(* Further claims on the list (SpecList) *)

\* C21: reset_list leaves the write offset of the arena at 0, the slots of
\* the pool linked as one chain in pool order (no predecessor before the
\* first, no successor after the last, nx and pv inverse of each other), the
\* header a parent with token "r" at depth 0, every other node empty with
\* index 0 and an empty token; it returns the first body node.
C21_ResetLeavesCleanList ==
    ret.op = "reset_list" =>
       /\ nvStr.wp = 0
       /\ nv_list[0].pv = NULL
       /\ nv_list[NV_LIST_LEN - 1].nx = NULL
       /\ \A k \in 0..(NV_LIST_LEN - 2) :
             nv_list[k].nx = k + 1 /\ nv_list[k + 1].pv = k
       /\ nv_list[0].valuetype = TYPE_PARENT
       /\ nv_list[0].token = <<"r">>
       /\ nv_list[0].depth = 0
       /\ \A k \in 1..(NV_LIST_LEN - 1) :
             /\ nv_list[k].valuetype = TYPE_EMPTY
             /\ nv_list[k].index = 0
             /\ nv_list[k].token = NUL
       /\ ret.st = nv_body

\* the list has been reset after a string was added: the node still holds
\* the reference, the arena has been rewound
C21_Witness ==
    /\ ret.op = "reset_list" /\ ret.arg[1] = "nv_add_string"
    /\ \E k \in BodySlots : nv_list[k].stringp # NULL
    /\ nvStr.wp = 0

-----------------------------------------------------------------------------
(* The persisted values after set_grp (SpecSetGrp) *)

\* the descriptors set_grp dispatched a set for
Touched(l) == {l[k].i : k \in {j \in 1..Len(l) : l[j].ev = "set"}}

\* C22: after set_grp in structured-object mode every descriptor flagged
\* PERSIST that it dispatched a set for has a nonvolatile record equal to
\* the value in its backing storage: a child whose setter did not return
\* STAT_OK has written no record.
C22_RejectedNotPersisted ==
    (ret.op = "set_grp" /\ comm_mode = JSON_MODE) =>
        \A i \in Touched(log) :
            F_PERSIST \in Desc(i).flags => nvm[i] = CellAsFloat(i)

-----------------------------------------------------------------------------
(* The nodes get_grp writes (SpecGrp) *)

\* C23: get_grp writes no node outside the pool: whatever the table and the
\* position of the parent, every child it populates is a slot of nv_list.
C23_ChildrenInPool ==
    ret.op = "get_grp" => oob = 0

-----------------------------------------------------------------------------
(* A boot on defaults followed by a boot on the records (SpecInit) *)

\* the table shape assumed: descriptor 0 is the build number, flagged
\* INITIALIZE and PERSIST, its default the build id
BuildNumberFirst ==
    /\ {F_INITIALIZE, F_PERSIST} \subseteq Desc(0).flags
    /\ Desc(0).def_value = fw_build

\* the boot before the hard reset took the DEFAULTS path
BootedOnDefaults == ret.op = "hard_reset" /\ ret.arg[1] = "DEFAULTS"

\* C24: with the build number as descriptor 0, the DEFAULTS path leaves the
\* build id in nonvolatile record 0; the config_init of the next hard reset
\* then takes the LOADED path and dispatches, for every descriptor flagged
\* INITIALIZE and PERSIST, a set with the default the DEFAULTS path stored,
\* which leaves the backing storage as the DEFAULTS path had left it.
C24_DefaultsThenLoaded ==
    [][BuildNumberFirst =>
         /\ DefaultsDone' => nvm'[0] = fw_build
         /\ (BootedOnDefaults /\ ret'.op = "config_init") =>
               /\ LoadedDone'
               /\ \A i \in Singles :
                    {F_INITIALIZE, F_PERSIST} \subseteq Desc(i).flags =>
                       /\ \E k \in 1..Len(log') :
                             log'[k] = Ev("set", i, Desc(i).def_value)
                       /\ nvm'[i] = Desc(i).def_value
                       /\ target'[i] = ret.arg[2][i]]_vars

\* a boot has loaded the records a boot on defaults wrote before it: a
\* descriptor behind the build number holds its default in its record and
\* in its backing storage
C24_Witness ==
    /\ LoadedDone /\ BuildNumberFirst
    /\ \E i \in Singles \ {0} :
         /\ {F_INITIALIZE, F_PERSIST} \subseteq Desc(i).flags
         /\ nvm[i] = Desc(i).def_value
         /\ CellAsFloat(i) = Desc(i).def_value
         /\ Desc(i).def_value # 0

-----------------------------------------------------------------------------
(* Specification SpecStrings: the list is reset, nodes are added to its body *)
(* and strings are copied for its nodes, in any order.                       *)

\* the texts copied for a node: one letter, so that two of them fit in the
\* arena behind one another
CopyTexts == {t \in Texts : Len(t) = 1}

\* status = nv_copy_string(nv, src)
CopyText ==
    \E n \in StringNodes, src \in CopyTexts :
       LET r == nv_copy_string(Machine, n, src) IN
       /\ Commit(r.m)
       /\ ret' = Call("nv_copy_string", <<n, src>>, r.st)
       /\ UNCHANGED <<cfgArray, fw_build, comm_mode, query>>

NextStrings ==
    \/ CountedList /\ ResetList
    \/ CountedList /\ AddObject
    \/ CountedList /\ AddInteger
    \/ CountedList /\ AddData
    \/ CountedList /\ AddFloat
    \/ CountedList /\ AddString
    \/ CountedList /\ CopyText

SpecStrings == InitAdd /\ [][NextStrings]_vars

\* the nodes of kind string
StringKind(list) == {k \in 0..(NV_LIST_LEN - 1) : list[k].valuetype = TYPE_STRING}

\* the text node k refers to
TextOf(list, str, k) == StrAt(str, list[k].stringp)

\* the call has copied a text into the arena: the node it was copied for
\* and the text
Copied(call) ==
    CASE call.op = "nv_add_string" /\ call.st # NULL ->
            [done |-> TRUE, n |-> call.st, src |-> call.arg[2]]
      [] call.op = "nv_copy_string" /\ call.st = STAT_OK ->
            [done |-> TRUE, n |-> call.arg[1], src |-> call.arg[2]]
      [] OTHER -> [done |-> FALSE, n |-> NULL, src |-> <<>>]

\* what holds of the arena whatever the reading of C25: after a reset no
\* node is of kind string; any other call leaves the write offset where it
\* was or further; a copy writes from the old write offset on, leaves the
\* bytes below it alone and moves the offset past the text and its
\* terminator; the text of every string node, terminator included, lies
\* below the write offset
ArenaStep ==
    /\ ret'.op = "reset_list" => StringKind(nv_list') = {}
    /\ ret'.op # "reset_list" => nvStr'.wp >= nvStr.wp
    /\ Copied(ret').done =>
          /\ nv_list'[Copied(ret').n].stringp = nvStr.wp
          /\ nvStr'.wp = nvStr.wp + Len(Copied(ret').src) + 1
          /\ \A b \in 0..(NV_SHARED_STRING_LEN - 1) :
                b < nvStr.wp => nvStr'.string[b] = nvStr.string[b]
    /\ \A k \in StringKind(nv_list') :
          /\ nv_list'[k].stringp # NULL
          /\ nv_list'[k].stringp + Len(TextOf(nv_list', nvStr', k)) < nvStr'.wp

\* C25 as stated: a node of kind string refers to the text handed to the
\* nv_add_string that made it one, copied since the last reset and intact:
\* the add leaves the node referring to its text, and no later call short of
\* a reset changes the text the node refers to; the copies lie in disjoint
\* ranges and the write offset does not go back between two resets.
C25_StringsKeepAddText ==
    [][/\ ArenaStep
       /\ (ret'.op = "nv_add_string" /\ ret'.st # NULL) =>
             /\ ret'.st \in StringKind(nv_list')
             /\ TextOf(nv_list', nvStr', ret'.st) = ret'.arg[2]
       /\ \A k \in StringKind(nv_list) \cap StringKind(nv_list') :
             TextOf(nv_list', nvStr', k) = TextOf(nv_list, nvStr, k)]_vars

\* C25: a node of kind string refers to the text handed to the call,
\* nv_add_string or nv_copy_string, that gave it its reference, copied since
\* the last reset and intact: the call leaves the node referring to its
\* text, and no later call short of a reset changes the text behind a
\* reference it does not reissue; the copies lie in disjoint ranges and the
\* write offset does not go back between two resets.
C25_StringsKeepIssuedText ==
    [][/\ ArenaStep
       /\ (ret'.op = "nv_add_string" /\ ret'.st # NULL) =>
             ret'.st \in StringKind(nv_list')
       /\ (Copied(ret').done /\ Copied(ret').n \in StringKind(nv_list')) =>
             TextOf(nv_list', nvStr', Copied(ret').n) = Copied(ret').src
       /\ \A k \in StringKind(nv_list) \cap StringKind(nv_list') :
             (~Copied(ret').done \/ Copied(ret').n # k) =>
                /\ nv_list'[k].stringp = nv_list[k].stringp
                /\ TextOf(nv_list', nvStr', k) = TextOf(nv_list, nvStr, k)]_vars

\* a string node has been given a second text by a copy made for it after
\* it was added; the text of the add is still in the arena, before the new
\* one
C25_Witness ==
    /\ ret.op = "nv_copy_string" /\ ret.st = STAT_OK
    /\ ret.arg[1] \in StringKind(nv_list)
    /\ nv_list[ret.arg[1]].stringp > 0
    /\ TextOf(nv_list, nvStr, ret.arg[1]) = ret.arg[2]
    /\ StrAt(nvStr, 0) # <<>>
    /\ StrAt(nvStr, 0) # ret.arg[2]

====
